---- MODULE Spec2Model ----
(***************************************************************************)
(* Model of the enrichment pipeline of visualizer.py: flatten_json,        *)
(* fetch_data (POST with retry on 429) and process_and_update_geojson      *)
(* (thread-pool fan-out, as_completed loop, merge and progress reports).   *)
(*                                                                         *)
(* Text is a sequence of one-character strings.  A JSON value is a record  *)
(* [t, v]: t is the Python type after json decoding, v the payload.  An    *)
(* object keeps its members in insertion order as a sequence of [k, x].    *)
(***************************************************************************)
EXTENDS Integers, Sequences, FiniteSets, TLC

\* ------------------------------------------------------------ bounds ---
MaxFeatures == 2
MaxRetries == 3
PoolFeatures == 12   \* features of the collections that fill the pool
MaxNodes == 4        \* nodes (containers and scalars) of a value to flatten
ProgressFeatures == 6   \* features of the collections whose progress is followed

\* --------------------------------------------------------- JSON values ---
JNull == [t |-> "null", v |-> 0]
JNum(n) == [t |-> "num", v |-> n]
JStr(s) == [t |-> "str", v |-> s]
JBool(b) == [t |-> "bool", v |-> b]
JArr(items) == [t |-> "arr", v |-> items]
JObj(members) == [t |-> "obj", v |-> members]
Member(key, val) == [k |-> key, x |-> val]

\* fetch_data returns None when no data was obtained
NotAvailable == JNull

\* (variant: every value passes the test)
Truthy_Always(x) == TRUE

\* (variant: the test is `if result is not None:`)
Truthy_NotNone(x) == x.t # "null"

\* Python truth value of a decoded JSON value (the test `if result:`)
Truthy(x) ==
    CASE x.t = "null" -> FALSE
      [] x.t = "bool" -> x.v
      [] x.t = "num" -> x.v # 0
      [] x.t = "str" -> Len(x.v) > 0
      [] x.t = "arr" -> Len(x.v) > 0
      [] x.t = "obj" -> Len(x.v) > 0

\* f"{i}" for a non-negative int: its decimal digits
Digit(d) == <<"0", "1", "2", "3", "4", "5", "6", "7", "8", "9">>[d + 1]

RECURSIVE Str(_)
Str(i) == IF i < 10 THEN <<Digit(i)>> ELSE Str(i \div 10) \o <<Digit(i % 10)>>

\* name[:-1]
DropLast(name) == IF Len(name) = 0 THEN <<>> ELSE SubSeq(name, 1, Len(name) - 1)

\* ------------------------------------------------------- flatten_json ---
\* The inner function flatten(x, name): the assignments out[key] = value it
\* performs, in the order it performs them.
RECURSIVE flatten(_, _)
RECURSIVE flattenFrom(_, _, _)
flattenFrom(x, name, j) ==
    IF j > Len(x.v) THEN <<>>
    ELSE (IF x.t = "obj"
            THEN flatten(x.v[j].x, name \o x.v[j].k \o <<"_">>)
            ELSE flatten(x.v[j], name \o Str(j - 1) \o <<"_">>))
         \o flattenFrom(x, name, j + 1)

flatten(x, name) ==
    IF x.t \in {"obj", "arr"} THEN flattenFrom(x, name, 1)
    ELSE <<Member(DropLast(name), x)>>

\* (variant: the first assignment to a key wins)
DictOf_FirstWins(assigns) ==
    [key \in {assigns[j].k : j \in 1..Len(assigns)} |->
        LET first == CHOOSE j \in 1..Len(assigns) :
                         /\ assigns[j].k = key
                         /\ \A m \in 1..(j - 1) : assigns[m].k # key
        IN assigns[first].x]

\* The dict left by a sequence of assignments: the last one to a key wins.
DictOf(assigns) ==
    [key \in {assigns[j].k : j \in 1..Len(assigns)} |->
        LET last == CHOOSE j \in 1..Len(assigns) :
                        /\ assigns[j].k = key
                        /\ \A m \in (j + 1)..Len(assigns) : assigns[m].k # key
        IN assigns[last].x]

flatten_json(y) == DictOf(flatten(y, <<>>))

\* (variant: the mapping is replaced instead of updated)
Update_Replace(d, other) == other

\* dict.update: every key of other is set in d, the other keys are kept
Update(d, other) ==
    [key \in DOMAIN d \cup DOMAIN other |->
        IF key \in DOMAIN other THEN other[key] ELSE d[key]]

EmptyDict == [key \in {} |-> JNull]

\* ------------------------------------------------- Python float (double) ---
\* progress_value and progress_increment are Python floats.  A non-negative
\* float below LimbBase is held exactly as a fixed-point number of Limbs
\* digits in base LimbBase = 2^LimbBits, most significant first: the first
\* limb is the integer part, the others are the fraction.  Every operation
\* computes the exact result and rounds it to a Mantissa-bit significand,
\* ties to even, as IEEE-754 double arithmetic does.  The fraction is wide
\* enough for the exact results of 1/n, of sums up to 1 and of products by
\* 100 when n <= 64.
Mantissa == 53
LimbBits == 15
Limbs == 5
LimbBase == 2 ^ LimbBits
Width == Limbs * LimbBits

\* the fixed-point numbers; the operations are functions, so that they are
\* applied to values
Fixed == [1..Limbs -> 0..(LimbBase - 1)]

FloatZero == [j \in 1..Limbs |-> 0]

\* one limb of a sum or a product: sum is the limb's own total, low the
\* carry and the limbs already computed below it
CarryInto[sum \in Nat, low \in Seq(Nat)] ==
    <<(sum + low[1]) \div LimbBase, (sum + low[1]) % LimbBase>> \o Tail(low)

\* a[j..] + b[j..], as the carry out followed by the limbs of the sum
AddFrom[a \in Fixed, b \in Fixed, j \in 1..(Limbs + 1)] ==
    IF j > Limbs THEN <<0>>
    ELSE CarryInto[a[j] + b[j], AddFrom[a, b, j + 1]]

\* exact sum of two fixed-point numbers
AddLimbs[a \in Fixed, b \in Fixed] == Tail(AddFrom[a, b, 1])

\* a[j..] * 100, as the carry out followed by the limbs of the product
Times100From[a \in Fixed, j \in 1..(Limbs + 1)] ==
    IF j > Limbs THEN <<0>>
    ELSE CarryInto[a[j] * 100, Times100From[a, j + 1]]

\* exact product of a fixed-point number and 100
Times100Limbs[a \in Fixed] == Tail(Times100From[a, 1])

\* bit g of a fixed-point number, g = 1 being the most significant
Bit(a, g) ==
    (a[(g - 1) \div LimbBits + 1] \div (2 ^ (LimbBits - 1 - ((g - 1) % LimbBits)))) % 2

\* position of the leading one bit of a non-zero fixed-point number
LeadingBit(a) ==
    LET j == CHOOSE m \in 1..Limbs : a[m] # 0 /\ \A h \in 1..(m - 1) : a[h] = 0
        len == CHOOSE c \in 1..LimbBits : 2 ^ (c - 1) <= a[j] /\ a[j] < 2 ^ c
    IN j * LimbBits - len + 1

\* a rounded so that bit last is its last significant bit: to nearest, ties
\* to even; sticky says that the exact value has further non-zero bits below
\* the last limb
RoundAt[a \in Fixed, sticky \in BOOLEAN, last \in 1..(Width + Mantissa)] ==
    IF last >= Width THEN a
    ELSE LET jl == (last - 1) \div LimbBits + 1
             unit == 2 ^ (jl * LimbBits - last)
             kept == [j \in 1..Limbs |->
                        IF j < jl THEN a[j]
                        ELSE IF j = jl THEN (a[j] \div unit) * unit
                        ELSE 0]
             rest == sticky \/ \E g \in (last + 2)..Width : Bit(a, g) = 1
             up == Bit(a, last + 1) = 1 /\ (rest \/ Bit(a, last) = 1)
             ulp == [j \in 1..Limbs |-> IF j = jl THEN unit ELSE 0]
         IN IF up THEN AddLimbs[kept, ulp] ELSE kept

\* the float nearest to an exact value
RoundFloat[a \in Fixed, sticky \in BOOLEAN] ==
    IF \A j \in 1..Limbs : a[j] = 0 THEN a
    ELSE RoundAt[a, sticky, LeadingBit(a) + Mantissa - 1]

\* long division: the limbs j.. of the fraction r / n followed by the final
\* remainder, r < n being the remainder carried into limb j
DivFrom[r \in Nat, n \in Nat, j \in 1..(Limbs + 1)] ==
    IF j > Limbs THEN <<r>>
    ELSE <<(r * LimbBase) \div n>> \o DivFrom[(r * LimbBase) % n, n, j + 1]

\* the fixed-point number and the sticky flag of a digit sequence that ends
\* with the remainder of the division
RoundDigits[digits \in Seq(Nat)] ==
    RoundFloat[SubSeq(digits, 1, Limbs), digits[Limbs + 1] # 0]

\* 1 / n for an int n >= 1 (true division, correctly rounded)
FloatInverse[n \in Nat \ {0}] == RoundDigits[<<1 \div n>> \o DivFrom[1 % n, n, 2]]

\* a + b on floats
FloatAdd[a \in Fixed, b \in Fixed] == RoundFloat[AddLimbs[a, b], FALSE]

\* a * 100 on a float
FloatTimes100[a \in Fixed] == RoundFloat[Times100Limbs[a], FALSE]

\* int(a): truncation of a non-negative float
FloatInt[a \in Fixed] == a[1]

Min[a \in Int, b \in Int] == IF a < b THEN a ELSE b

\* min(int(progress_value * 100), 100)
ProgressPercent[pv \in Fixed] == Min[FloatInt[FloatTimes100[pv]], 100]

\* ------------------------------------------------------------ inputs ---
K_a == <<"a">>
K_b == <<"b">>
K_c == <<"c">>
K_a_b == <<"a", "_", "b">>
K_name == <<"n", "a", "m", "e">>

\* {"a": {"b": 1}, "c": [10, 20]}
BodyStats ==
    JObj(<<Member(K_a, JObj(<<Member(K_b, JNum(1))>>)),
           Member(K_c, JArr(<<JNum(10), JNum(20)>>))>>)

\* decoded bodies of the 200 responses the service is taken to send
Bodies == {BodyStats, JNum(0), JNull}

\* property mappings of the input features: none, or one whose key "a_b"
\* collides with a flattened key of BodyStats
PropsNamed == [key \in {K_a_b, K_name} |->
                  IF key = K_a_b THEN JNum(7) ELSE JStr(<<"x">>)]
PropChoices == {EmptyDict, PropsNamed}

Geometry(i) == JObj(<<Member(<<"r", "i", "n", "g">>, JNum(i))>>)

\* what requests.post gives: it raises (transport failure), or a response
\* with a status code and, for 200, a body
TransportError == [raised |-> TRUE, status |-> 0, body |-> JNull]

\* a body that is not JSON text (an HTML page, an empty body):
\* response.json() raises on it
NotJson == [t |-> "notjson", v |-> 0]
OtherStatuses == {500}
Responses ==
    {TransportError}
    \cup {[raised |-> FALSE, status |-> 200, body |-> b] :
             b \in Bodies \cup {NotJson}}
    \cup {[raised |-> FALSE, status |-> s, body |-> JNull] :
             s \in {429} \cup OtherStatuses}

\* --------------------------------------------------------------- state ---
VARIABLES
    original,        \* the features of the collection as the caller passed them
    features,        \* geojson["features"], mutated in place
    pc,              \* where process_and_update_geojson (or the caller) stands
    task,            \* one fetch_data call per feature (the futures)
    handled,         \* futures the as_completed loop has handled
    progress_value,  \* the float progress_value
    progress_bar,    \* the values given to st.progress / progress_bar.progress
    max_retries      \* the max_retries argument of fetch_data

vars == <<original, features, pc, task, handled, progress_value,
          progress_bar, max_retries>>

default_max_retries == 3
max_workers == 10

N == Len(features)

\* a fetch_data call that has not been given to a worker yet
NewTask(feature, st) ==
    [st |-> st,               \* "queued", "posting", "sleeping", "done"
     data |-> feature.geometry,
     attempt |-> 0,
     posts |-> 0,
     sleeps |-> 0,
     log |-> <<>>,            \* what every POST gave, in order
     warnings |-> <<>>,       \* st.warning calls
     outcome |-> "none",      \* "returned", "raised"
     result |-> NotAvailable]

\* the property mappings of the collections enrich is given: n features,
\* the first k of them with properties
Collections ==
    {[i \in 1..n |-> IF i <= k THEN PropsNamed ELSE EmptyDict] :
        n \in 0..MaxFeatures, k \in 0..MaxFeatures}

FeaturesOf(props) ==
    [i \in 1..Len(props) |-> [geometry |-> Geometry(i), properties |-> props[i]]]

Init ==
    /\ \E props \in Collections : features = FeaturesOf(props)
    /\ original = features
    /\ pc = "start"
    /\ task = <<>>
    /\ handled = {}
    /\ progress_value = FloatZero
    /\ progress_bar = <<>>
    /\ max_retries = default_max_retries

\* ---------------------------------------------------------- fetch_data ---
\* (variant: one retry too few)
RetriesRemain_OffByOne(attempt, retries) == attempt < retries - 2

\* line 43: a 429 is retried while attempts remain
RetriesRemain(attempt, retries) == attempt < retries - 1

\* line 41: response.json() returns the decoded body, or raises
Decodes(body) == body.t # "notjson"

\* (variant: the wrong success code)
IsOk_Created(status) == status = 201

\* line 40
IsOk(status) == status = 200

\* (variant: every failure status is retried)
IsRateLimited_AnyFailure(status) == status # 200

\* line 42
IsRateLimited(status) == status = 429

\* (variant: the retry is not announced)
Iteration_SilentRetry(t, resp, retries) ==
    LET posted == [t EXCEPT !.posts = @ + 1, !.log = Append(@, resp)]
    IN IF resp.raised
         THEN [posted EXCEPT !.st = "done", !.outcome = "raised"]
       ELSE IF IsOk(resp.status)
         THEN IF Decodes(resp.body)
                THEN [posted EXCEPT !.st = "done", !.outcome = "returned",
                                    !.result = resp.body]
                ELSE [posted EXCEPT !.st = "done", !.outcome = "raised"]
       ELSE IF IsRateLimited(resp.status)
         THEN IF RetriesRemain(t.attempt, retries)
                THEN [posted EXCEPT !.st = "sleeping", !.sleeps = @ + 1]
                ELSE [posted EXCEPT !.warnings = Append(@, "max_retries"),
                                    !.st = "done", !.outcome = "returned",
                                    !.result = NotAvailable]
       ELSE [posted EXCEPT !.st = "done", !.outcome = "returned",
                           !.result = NotAvailable]

\* One iteration of the loop of fetch_data: the POST, and what the code does
\* with its response, up to the return, the raise or the start of the sleep.
Iteration(t, resp, retries) ==
    LET posted == [t EXCEPT !.posts = @ + 1, !.log = Append(@, resp)]
    IN IF resp.raised
         THEN [posted EXCEPT !.st = "done", !.outcome = "raised"]
       ELSE IF IsOk(resp.status)
         THEN IF Decodes(resp.body)
                THEN [posted EXCEPT !.st = "done", !.outcome = "returned",
                                    !.result = resp.body]
                ELSE [posted EXCEPT !.st = "done", !.outcome = "raised"]
       ELSE IF IsRateLimited(resp.status)
         THEN IF RetriesRemain(t.attempt, retries)
                THEN [posted EXCEPT !.warnings = Append(@, "retrying"),
                                    !.st = "sleeping", !.sleeps = @ + 1]
                ELSE [posted EXCEPT !.warnings = Append(@, "max_retries"),
                                    !.st = "done", !.outcome = "returned",
                                    !.result = NotAvailable]
       ELSE [posted EXCEPT !.st = "done", !.outcome = "returned",
                           !.result = NotAvailable]

\* time.sleep returns: the next iteration, or the end of the loop
AfterSleep(t, retries) ==
    IF t.attempt + 1 < retries
    THEN [t EXCEPT !.attempt = @ + 1, !.st = "posting"]
    ELSE [t EXCEPT !.attempt = @ + 1, !.st = "done", !.outcome = "returned",
                   !.result = NotAvailable]

Post(i, resp) ==
    /\ i \in DOMAIN task
    /\ task[i].st = "posting"
    /\ task' = [task EXCEPT ![i] = Iteration(@, resp, max_retries)]
    /\ UNCHANGED <<original, features, pc, handled, progress_value,
                   progress_bar, max_retries>>

WakeUp(i) ==
    /\ i \in DOMAIN task
    /\ task[i].st = "sleeping"
    /\ task' = [task EXCEPT ![i] = AfterSleep(@, max_retries)]
    /\ UNCHANGED <<original, features, pc, handled, progress_value,
                   progress_bar, max_retries>>

\* ------------------------------------------ process_and_update_geojson ---
InFlight == {i \in DOMAIN task : task[i].st \in {"posting", "sleeping"}}
Queued == {i \in DOMAIN task : task[i].st = "queued"}
AllDone == \A i \in DOMAIN task : task[i].st = "done"

\* lines 61-68: the progress bar, the increment and the pool
Start ==
    /\ pc = "start"
    /\ progress_bar' = Append(progress_bar, 0)
    /\ pc' = IF N = 0 THEN "raised"          \* 1 / 0: ZeroDivisionError
             ELSE "submit"
    /\ UNCHANGED <<original, features, task, handled, progress_value,
                   max_retries>>

\* lines 69-71: one executor.submit(fetch_data, feature), for the next
\* feature; the worker threads run the calls already submitted while the
\* main thread goes on submitting, and the loop over as_completed starts
\* after the last submit
Submit ==
    /\ pc = "submit"
    /\ Len(task) < N
    /\ task' = Append(task, NewTask(features[Len(task) + 1], "queued"))
    /\ pc' = IF Len(task) + 1 = N THEN "as_completed" ELSE "submit"
    /\ UNCHANGED <<original, features, handled, progress_value,
                   progress_bar, max_retries>>

\* (variant: a pool that starts a thread for every call)
Run_Unbounded(i) ==
    /\ i \in Queued
    /\ \A j \in Queued : i <= j
    /\ task' = [task EXCEPT ![i].st = "posting"]
    /\ UNCHANGED <<original, features, pc, handled, progress_value,
                   progress_bar, max_retries>>

\* a worker thread of the pool takes the oldest queued call
Run(i) ==
    /\ i \in Queued
    /\ \A j \in Queued : i <= j
    /\ Cardinality(InFlight) < max_workers
    /\ task' = [task EXCEPT ![i].st = "posting"]
    /\ UNCHANGED <<original, features, pc, handled, progress_value,
                   progress_bar, max_retries>>

\* lines 76-78: the merge of a result into the properties of its feature
Merged(properties, result) ==
    IF Truthy(result) THEN Update(properties, flatten_json(result))
    ELSE properties

\* (variant: the merges are undone when a future raises)
Handle_RollBack(i) ==
    /\ pc = "as_completed"
    /\ i \in DOMAIN task
    /\ i \notin handled
    /\ task[i].st = "done"
    /\ IF task[i].outcome = "raised"
         THEN /\ pc' = "shutdown"
              /\ features' = original
              /\ UNCHANGED <<handled, progress_value, progress_bar>>
         ELSE \E progress_increment \in {FloatInverse[N]} :
              \E value \in {FloatAdd[progress_value, progress_increment]} :
                 /\ features' = [features EXCEPT ![i].properties =
                                     Merged(@, task[i].result)]
                 /\ handled' = handled \cup {i}
                 /\ progress_value' = value
                 /\ progress_bar' = Append(progress_bar, ProgressPercent[value])
                 /\ pc' = pc
    /\ UNCHANGED <<original, task, max_retries>>

\* lines 73-80: one iteration of the as_completed loop, for future i
Handle(i) ==
    /\ pc = "as_completed"
    /\ i \in DOMAIN task
    /\ i \notin handled
    /\ task[i].st = "done"
    /\ IF task[i].outcome = "raised"
         THEN \* future.result() raises again: the with block is left
              /\ pc' = "shutdown"
              /\ UNCHANGED <<features, handled, progress_value, progress_bar>>
         ELSE \E progress_increment \in {FloatInverse[N]} :
              \E value \in {FloatAdd[progress_value, progress_increment]} :
                 /\ features' = [features EXCEPT ![i].properties =
                                     Merged(@, task[i].result)]
                 /\ handled' = handled \cup {i}
                 /\ progress_value' = value
                 /\ progress_bar' = Append(progress_bar, ProgressPercent[value])
                 /\ pc' = pc
    /\ UNCHANGED <<original, task, max_retries>>

\* lines 82-84: the loop is over, the pool is shut down, 100 is reported
Return ==
    /\ pc = "as_completed"
    /\ handled = DOMAIN task
    /\ progress_bar' = Append(progress_bar, 100)
    /\ pc' = "returned"
    /\ UNCHANGED <<original, features, task, handled, progress_value,
                   max_retries>>

\* (variant: the pool is shut down without waiting)
Propagate_NoWait ==
    /\ pc = "shutdown"
    /\ pc' = "raised"
    /\ UNCHANGED <<original, features, task, handled, progress_value,
                   progress_bar, max_retries>>

\* the with block left by an exception: shutdown(wait=True) joins the
\* workers, then the exception reaches the caller
Propagate ==
    /\ pc = "shutdown"
    /\ AllDone
    /\ pc' = "raised"
    /\ UNCHANGED <<original, features, task, handled, progress_value,
                   progress_bar, max_retries>>

Next ==
    \/ Start
    \/ Submit
    \/ \E i \in 1..N : Run(i)
    \/ \E i \in 1..N, resp \in Responses : Post(i, resp)
    \/ \E i \in 1..N : WakeUp(i)
    \/ \E i \in 1..N : Handle(i)
    \/ Return
    \/ Propagate

Spec == Init /\ [][Next]_vars

\* ------------------------------------------- fetch_data called directly ---
FetchInit ==
    /\ \E props \in PropChoices, g \in 1..MaxFeatures :
           features = <<[geometry |-> Geometry(g), properties |-> props]>>
    /\ original = features
    /\ pc = "fetch_data"
    /\ task = <<NewTask(features[1], "posting")>>
    /\ handled = {}
    /\ progress_value = FloatZero
    /\ progress_bar = <<>>
    /\ max_retries \in 1..MaxRetries

FetchNext ==
    \/ \E resp \in Responses : Post(1, resp)
    \/ WakeUp(1)

FetchSpec == FetchInit /\ [][FetchNext]_vars

\* Threads that can take a step eventually take one: a POST is answered or
\* fails, a sleep ends, the main thread goes on.
FairSpec == Spec /\ WF_vars(Next)

\* ------------------------------------------- every POST is answered ---
\* requests.post never raises: every POST gets a response with a status
\* and a body, which for a 200 may or may not be JSON
AnsweredResponses == Responses \ {TransportError}

AnsweredNext ==
    \/ Start
    \/ Submit
    \/ \E i \in 1..N : Run(i)
    \/ \E i \in 1..N, resp \in AnsweredResponses : Post(i, resp)
    \/ \E i \in 1..N : WakeUp(i)
    \/ \E i \in 1..N : Handle(i)
    \/ Return
    \/ Propagate

\* every POST is answered in the end, every sleep ends, and the threads
\* that can go on do
AnsweredSpec == Init /\ [][AnsweredNext]_vars /\ WF_vars(AnsweredNext)

\* -------------------------------------- a collection larger than the pool ---
\* The submits and the worker threads for more features than max_workers,
\* none with properties, up to the wait of the main thread in as_completed; the
\* service answers every POST with a failure status, so that a call is over
\* with its first response.
PoolResponse == [raised |-> FALSE, status |-> 500, body |-> JNull]

PoolInit ==
    /\ \E n \in (max_workers + 1)..PoolFeatures :
           features = FeaturesOf([i \in 1..n |-> EmptyDict])
    /\ original = features
    /\ pc = "start"
    /\ task = <<>>
    /\ handled = {}
    /\ progress_value = FloatZero
    /\ progress_bar = <<>>
    /\ max_retries = default_max_retries

PoolNext ==
    \/ Start
    \/ Submit
    \/ \E i \in 1..N : Run(i)
    \/ \E i \in 1..N : Post(i, PoolResponse)

PoolSpec == PoolInit /\ [][PoolNext]_vars

\* ----------------------------------------- flatten_json called directly ---
\* The decoded JSON values flatten_json is given: the scalars 1 and 2, and
\* the objects (keys "a", "b", "a_b", in any order) and arrays built from
\* them, by number of nodes.
FlatScalars == {JNum(1), JNum(2)}
FlatKeys == {K_a, K_b, K_a_b}

\* the key sequences of a dict of len members: no key twice
KeySeqs(len) ==
    {ks \in [1..len -> FlatKeys] : \A i, j \in 1..len : ks[i] = ks[j] => i = j}

RECURSIVE ValuesOfSize(_)
RECURSIVE ItemsOfSize(_)
\* the sequences of values that have n nodes altogether
ItemsOfSize(n) ==
    IF n = 0 THEN {<<>>}
    ELSE UNION {{<<x>> \o rest : x \in ValuesOfSize(m),
                                 rest \in ItemsOfSize(n - m)} : m \in 1..n}

ValuesOfSize(n) ==
    (IF n = 1 THEN FlatScalars ELSE {})
    \cup {JArr(items) : items \in ItemsOfSize(n - 1)}
    \cup UNION {{JObj([j \in 1..Len(items) |-> Member(ks[j], items[j])]) :
                    ks \in KeySeqs(Len(items))} : items \in ItemsOfSize(n - 1)}

\* {"": 1} and {"": {"": 1}}
EmptyKeyValues ==
    {JObj(<<Member(<<>>, JNum(1))>>),
     JObj(<<Member(<<>>, JObj(<<Member(<<>>, JNum(1))>>))>>)}

\* the values of up to n nodes, the body of BodyStats and the empty keys
FlatInputs(n) ==
    UNION {ValuesOfSize(m) : m \in 1..n} \cup {BodyStats} \cup EmptyKeyValues

\* The argument y is held in task[1].result and the dict flatten_json
\* returns in features[1].properties.
FlattenInit ==
    /\ features = <<[geometry |-> Geometry(1), properties |-> EmptyDict]>>
    /\ original = features
    /\ pc = "flatten_json"
    /\ \E y \in FlatInputs(MaxNodes) :
           task = <<[NewTask(features[1], "done") EXCEPT
                         !.outcome = "returned", !.result = y]>>
    /\ handled = {}
    /\ progress_value = FloatZero
    /\ progress_bar = <<>>
    /\ max_retries = default_max_retries

Flatten ==
    /\ pc = "flatten_json"
    /\ features' = [features EXCEPT ![1].properties = flatten_json(task[1].result)]
    /\ pc' = "flattened"
    /\ UNCHANGED <<original, task, handled, progress_value, progress_bar,
                   max_retries>>

FlattenNext == Flatten

FlattenSpec == FlattenInit /\ [][FlattenNext]_vars

\* ------------------------------------------- the progress of a batch ---
\* Collections of up to ProgressFeatures features without properties, every
\* POST answered with a failure status: the whole of enrich, followed for
\* the values it reports.
ProgressInit ==
    /\ \E n \in 1..ProgressFeatures :
           features = FeaturesOf([i \in 1..n |-> EmptyDict])
    /\ original = features
    /\ pc = "start"
    /\ task = <<>>
    /\ handled = {}
    /\ progress_value = FloatZero
    /\ progress_bar = <<>>
    /\ max_retries = default_max_retries

ProgressNext ==
    \/ Start
    \/ Submit
    \/ \E i \in 1..N : Run(i)
    \/ \E i \in 1..N : Post(i, PoolResponse)
    \/ \E i \in 1..N : Handle(i)
    \/ Return

ProgressSpec == ProgressInit /\ [][ProgressNext]_vars

\* ------------------------------------------- bodies that are not truthy ---
\* null, {}, [], 0, false and "", and the scalar 5
FalsyBodies == {JNull, JObj(<<>>), JArr(<<>>), JNum(0), JBool(FALSE), JStr(<<>>)}
BodyResponses ==
    {[raised |-> FALSE, status |-> 200, body |-> b] : b \in FalsyBodies \cup {JNum(5)}}

\* enrich with every POST answered 200
BodyNext ==
    \/ Start
    \/ Submit
    \/ \E i \in 1..N : Run(i)
    \/ \E i \in 1..N, resp \in BodyResponses : Post(i, resp)
    \/ \E i \in 1..N : Handle(i)
    \/ Return

BodySpec == Init /\ [][BodyNext]_vars

\* ------------------------------------------------------------ claims ---
Last(seq) == seq[Len(seq)]
Finished == pc \in {"returned", "raised"}
Returned(i) == task[i].st = "done" /\ task[i].outcome = "returned"
Raised(i) == task[i].st = "done" /\ task[i].outcome = "raised"
\* requests.post of call i raised
TransportFailed(i) == Raised(i) /\ Last(task[i].log).raised

\* the service answered 429 to the first k POSTs of call i
RateLimitedUpTo(i, k) ==
    \A j \in 1..k : ~task[i].log[j].raised /\ task[i].log[j].status = 429

\* C1: a transport failure of one fetch never makes enrich raise: while or
\* after a fetch has failed that way, enrich is neither unwinding nor raised
C1_TransportFailureContained ==
    (\E i \in DOMAIN task : TransportFailed(i)) =>
        pc \notin {"shutdown", "raised"}

\* C2: for an empty collection enrich is a no-op: once started it has
\* returned, no task was scheduled, the collection is unchanged and the
\* progress channel got its completion signal
C2_EmptyIsNoOp ==
    (N = 0 /\ pc # "start") =>
        /\ pc = "returned"
        /\ task = <<>>
        /\ features = original
        /\ Len(progress_bar) > 0 /\ Last(progress_bar) = 100

\* C3: for n >= 1 the reported progress values are non-decreasing, lie in
\* 0..100, and the last one is 100 when enrich is over
C3_ProgressEndsAt100 ==
    /\ \A j \in 1..Len(progress_bar) : progress_bar[j] \in 0..100
    /\ \A j \in 1..(Len(progress_bar) - 1) : progress_bar[j] <= progress_bar[j + 1]
    /\ (N >= 1 /\ Finished) => Last(progress_bar) = 100

\* C4: when every attempt is answered 429, fetch_data issues exactly
\* max_retries POSTs and then returns NotAvailable
C4_ExhaustedAfterMaxRetries ==
    \A i \in DOMAIN task :
        (task[i].st = "done" /\ RateLimitedUpTo(i, Len(task[i].log))) =>
            /\ Len(task[i].log) = max_retries
            /\ task[i].posts = max_retries
            /\ task[i].outcome = "returned"
            /\ task[i].result = NotAvailable

C4_Witness ==
    /\ pc = "fetch_data"
    /\ max_retries = 3
    /\ task[1].st = "done"
    /\ Len(task[1].log) = 3
    /\ RateLimitedUpTo(1, 3)

C6_OtherStatusNoRetry ==
    \A i \in DOMAIN task :
        (/\ Len(task[i].log) >= 1
         /\ ~Last(task[i].log).raised
         /\ Last(task[i].log).status \notin {200, 429}) =>
            /\ task[i].st = "done"
            /\ task[i].outcome = "returned"
            /\ task[i].result = NotAvailable
            /\ task[i].posts = Len(task[i].log)
            /\ task[i].sleeps = Len(task[i].log) - 1

C6_Witness ==
    /\ pc = "fetch_data"
    /\ max_retries = 3
    /\ Len(task[1].log) = 2
    /\ task[1].log[1].status = 429
    /\ task[1].log[2].status = 500
    /\ task[1].st = "done"
    /\ task[1].sleeps = 1

\* C7: when enrich is over, every key of flatten(result) of every completed
\* task whose result is not NotAvailable is in the feature's properties with
\* the fetched value
C7_FetchedKeysMerged ==
    Finished =>
        \A i \in DOMAIN task :
            (Returned(i) /\ task[i].result # NotAvailable) =>
                LET flat == flatten_json(task[i].result)
                    properties == features[i].properties
                IN \A key \in DOMAIN flat :
                       key \in DOMAIN properties /\ properties[key] = flat[key]

\* C8: in a batch with mixed outcomes a feature whose fetch yielded
\* NotAvailable has at every moment exactly its original property mapping,
\* and when enrich is over every feature whose fetch completed with a result
\* other than NotAvailable is enriched: its mapping is the original one
\* updated with the flattened result
C8_NotAvailableLeavesProperties ==
    /\ \A i \in DOMAIN task :
           (Returned(i) /\ task[i].result = NotAvailable) =>
               features[i].properties = original[i].properties
    /\ Finished =>
           \A i \in DOMAIN task :
               (Returned(i) /\ task[i].result # NotAvailable) =>
                   features[i].properties =
                       Update(original[i].properties,
                              flatten_json(task[i].result))

\* every fetch of a non-empty batch has returned NotAvailable
AllNotAvailable ==
    /\ N >= 1
    /\ pc \notin {"start", "submit", "fetch_data"}
    /\ Len(task) = N
    /\ \A i \in DOMAIN task : Returned(i) /\ task[i].result = NotAvailable

\* C9: when every fetch returns NotAvailable, enrich still returns, with
\* every feature as it was passed and with 100 as the last progress value
C9_TotalFailureStillReturns ==
    AllNotAvailable ~>
        (pc = "returned" /\ features = original /\ Last(progress_bar) = 100)

C9_Witness ==
    /\ AllNotAvailable
    /\ N = 2
    /\ pc = "returned"
    /\ original[1].properties = PropsNamed
    /\ features = original
    /\ Last(progress_bar) = 100
    /\ Len(task[1].log) = 3 /\ RateLimitedUpTo(1, 3)
    /\ task[2].log[1].status = 200 /\ task[2].log[1].body = JNull

\* C10: at every moment the collection has the features it was passed, in
\* the same order, with the same geometries, and every original property
\* key is still there with its original value or with the value of the
\* flattened key of the same name that was merged over it
C10_CollectionFrame ==
    /\ Len(features) = Len(original)
    /\ \A i \in 1..Len(original) :
           /\ features[i].geometry = original[i].geometry
           /\ \A key \in DOMAIN original[i].properties :
                  /\ key \in DOMAIN features[i].properties
                  /\ \/ features[i].properties[key] = original[i].properties[key]
                     \/ /\ i \in handled
                        /\ key \in DOMAIN flatten_json(task[i].result)
                        /\ features[i].properties[key] =
                               flatten_json(task[i].result)[key]

C10_Witness ==
    /\ pc = "returned"
    /\ N = 2
    /\ original[1].properties = PropsNamed
    /\ task[1].result = BodyStats
    /\ features[1].properties[K_a_b] = JNum(1)
    /\ features[1].properties[K_name] = JStr(<<"x">>)
    /\ features[1].geometry = Geometry(1)
    /\ features[2].geometry = Geometry(2)
    /\ original[2].properties = PropsNamed
    /\ features[2].properties = PropsNamed

\* C11: once the calls are submitted there is exactly one fetch task per
\* feature, task i being given the geometry of feature i, and at every
\* moment at most max_workers (10) tasks are in flight
C11_OneTaskPerFeatureBoundedPool ==
    /\ Cardinality(InFlight) <= max_workers
    /\ pc \in {"as_completed", "shutdown", "returned"} =>
           /\ Len(task) = N
           /\ \A i \in 1..N : task[i].data = features[i].geometry
           /\ \A i, j \in 1..N : task[i].data = task[j].data => i = j

\* the pool is full while calls are still queued
C11_Witness ==
    /\ N > max_workers
    /\ Len(task) = N
    /\ Cardinality(InFlight) = max_workers
    /\ Queued = {N}
    /\ task[1].st = "done"

\* The leaves of a value: the scalars in it, each with its path from the
\* root (object keys and array indices), and with the positions of the
\* members on the way down, which order the leaves as the document does.
RECURSIVE Leaves(_)
Leaves(x) ==
    IF x.t = "obj"
      THEN UNION {{[path |-> <<x.v[j].k>> \o l.path, pos |-> <<j>> \o l.pos,
                    leaf |-> l.leaf] : l \in Leaves(x.v[j].x)} :
                      j \in 1..Len(x.v)}
    ELSE IF x.t = "arr"
      THEN UNION {{[path |-> <<Str(j - 1)>> \o l.path, pos |-> <<j>> \o l.pos,
                    leaf |-> l.leaf] : l \in Leaves(x.v[j])} :
                      j \in 1..Len(x.v)}
    ELSE {[path |-> <<>>, pos |-> <<>>, leaf |-> x]}

\* the segments of a path joined with "_"
RECURSIVE Join(_)
Join(path) ==
    IF Len(path) = 0 THEN <<>>
    ELSE IF Len(path) = 1 THEN path[1]
    ELSE path[1] \o <<"_">> \o Join(Tail(path))

\* leaf p comes before leaf q in the document
Before(p, q) ==
    \E j \in 1..Len(p) :
        /\ j <= Len(q)
        /\ p[j] < q[j]
        /\ \A m \in 1..(j - 1) : p[m] = q[m]

FlatArgument == task[1].result
FlatReturned == features[1].properties

\* {"a_b": 1, "c_0": 10, "c_1": 20}
FlatStats ==
    [key \in {K_a_b, <<"c", "_", "0">>, <<"c", "_", "1">>} |->
        IF key = K_a_b THEN JNum(1)
        ELSE IF key = <<"c", "_", "0">> THEN JNum(10) ELSE JNum(20)]

FlatSpecialCases ==
    /\ FlatArgument \in {JObj(<<>>), JArr(<<>>)} => FlatReturned = EmptyDict
    /\ FlatArgument = BodyStats => FlatReturned = FlatStats

\* C12: the keys of flatten(v) are exactly the root-to-leaf paths of v
\* joined with "_", and the value at the key of every path is the leaf
\* scalar at that path; flatten({}) and flatten([]) are empty and
\* flatten({"a": {"b": 1}, "c": [10, 20]}) is {"a_b": 1, "c_0": 10, "c_1": 20}
C12_FlattenLeafAtEveryPath ==
    pc = "flattened" =>
        /\ DOMAIN FlatReturned = {Join(l.path) : l \in Leaves(FlatArgument)}
        /\ \A l \in Leaves(FlatArgument) : FlatReturned[Join(l.path)] = l.leaf
        /\ FlatSpecialCases

\* C12 (amended): the keys of flatten(v) are exactly the joined
\* root-to-leaf paths of v, and the value at a key is the leaf scalar of the
\* last path of the document that joins to that key: the leaf at the path
\* itself whenever no later path joins to the same key; the special cases
\* are as stated
C12_FlattenLastPathWins ==
    pc = "flattened" =>
        /\ DOMAIN FlatReturned = {Join(l.path) : l \in Leaves(FlatArgument)}
        /\ \A l \in Leaves(FlatArgument) :
               (\A q \in Leaves(FlatArgument) :
                    Join(q.path) = Join(l.path) => ~Before(l.pos, q.pos)) =>
                   FlatReturned[Join(l.path)] = l.leaf
        /\ FlatSpecialCases

\* {"a": {"b": 1}, "a_b": 2} gives {"a_b": 2}
C12_Witness ==
    /\ pc = "flattened"
    /\ FlatArgument = JObj(<<Member(K_a, JObj(<<Member(K_b, JNum(1))>>)),
                             Member(K_a_b, JNum(2))>>)
    /\ DOMAIN FlatReturned = {K_a_b}
    /\ FlatReturned[K_a_b] = JNum(2)

\* round(a / n) for ints a >= 0, n >= 1: the nearest integer, the even one
\* of the two at a tie
RoundDiv(a, n) ==
    LET q == a \div n
        r == a % n
    IN IF 2 * r < n THEN q
       ELSE IF 2 * r > n THEN q + 1
       ELSE IF q % 2 = 0 THEN q ELSE q + 1

\* C13: for n >= 1 and every k in 1..n, the value reported right after the
\* k-th completion is handled is min(round(100 * k / n), 100)
C13_ProgressIsRoundedShare ==
    \A k \in 1..Cardinality(handled) :
        /\ Len(progress_bar) >= k + 1
        /\ progress_bar[k + 1] = Min[RoundDiv(100 * k, N), 100]

\* C14: a result is merged only into the feature whose geometry its task
\* sent: the properties of feature i are at every moment the original ones
\* or, once its completion is handled, the original ones with the result of
\* task i merged; and the final properties depend on the per-feature
\* results only, not on the order of completion: when enrich is over, every
\* feature whose fetch completed with a result has that result merged
C14_OwnResultAnyOrder ==
    /\ \A i \in DOMAIN task :
           /\ task[i].data = features[i].geometry
           /\ features[i].properties =
                  IF i \in handled
                  THEN Merged(original[i].properties, task[i].result)
                  ELSE original[i].properties
    /\ Finished =>
           \A i \in DOMAIN task :
               Returned(i) =>
                   features[i].properties =
                       Merged(original[i].properties, task[i].result)

\* C15: when enrich has returned or has propagated an error, no fetch task
\* is queued, posting or sleeping: every one of the n submitted tasks is over
C15_PoolDrainedOnExit ==
    (Finished /\ N >= 1) =>
        /\ Len(task) = N
        /\ InFlight = {}
        /\ Queued = {}
        /\ AllDone

\* enrich has propagated the error of fetch 1 while every fetch failed:
\* fetch 2 went through all its attempts and its two backoff waits
C15_Witness ==
    /\ pc = "raised"
    /\ N = 2
    /\ Raised(1)
    /\ handled = {}
    /\ Returned(2)
    /\ task[2].sleeps = 2
    /\ Len(task[2].log) = 3 /\ RateLimitedUpTo(2, 3)

\* C16: with every POST answered and every backoff wait ended in the end,
\* enrich over n >= 1 features eventually returns, and when it has returned
\* all n tasks have completed with a result or NotAvailable and each
\* completion was handled once
C16_EventuallyReturns ==
    /\ (N >= 1 /\ pc = "start") ~> (pc = "returned")
    /\ [](pc = "returned" =>
             /\ Len(task) = N
             /\ \A i \in 1..N : Returned(i)
             /\ handled = 1..N
             /\ Len(progress_bar) = N + 2)

\* the warnings a sequence of responses calls for, from response j on: a
\* 429 before the last allowed attempt a transient one, a 429 at the last
\* allowed attempt the terminal one, any other response none
RECURSIVE WarningsFor(_, _, _)
WarningsFor(log, j, retries) ==
    IF j > Len(log) THEN <<>>
    ELSE (IF ~log[j].raised /\ log[j].status = 429
            THEN IF j < retries THEN <<"retrying">> ELSE <<"max_retries">>
            ELSE <<>>)
         \o WarningsFor(log, j + 1, retries)

\* C17: in fetch every 429 with retries remaining gives one transient
\* warning, emitted before the backoff wait begins (a call that waits has
\* already emitted the warning of that wait); a 429 on the last allowed
\* attempt gives exactly one terminal warning, no wait and NotAvailable; a
\* failure status other than 429 gives no warning
C17_WarningsFollowResponses ==
    \A i \in DOMAIN task :
        LET t == task[i] IN
        /\ t.warnings = WarningsFor(t.log, 1, max_retries)
        /\ t.sleeps = Cardinality({j \in 1..Len(t.warnings) :
                                       t.warnings[j] = "retrying"})
        /\ t.st = "sleeping" =>
               /\ Last(t.warnings) = "retrying"
               /\ Len(t.warnings) = t.sleeps
        /\ (/\ Len(t.log) = max_retries
            /\ ~Last(t.log).raised
            /\ Last(t.log).status = 429) =>
               /\ t.st = "done"
               /\ t.outcome = "returned"
               /\ t.result = NotAvailable
               /\ Last(t.warnings) = "max_retries"
               /\ Cardinality({j \in 1..Len(t.warnings) :
                                   t.warnings[j] = "max_retries"}) = 1
               /\ t.sleeps = max_retries - 1
        /\ (/\ Len(t.log) >= 1
            /\ ~Last(t.log).raised
            /\ Last(t.log).status \notin {200, 429}) =>
               /\ Len(t.warnings) = Len(t.log) - 1
               /\ \A j \in 1..Len(t.warnings) : t.warnings[j] = "retrying"

\* three times 429 with max_retries = 3: two transient warnings, each with
\* its wait, then the terminal warning without a wait
C17_Witness ==
    /\ pc = "fetch_data"
    /\ max_retries = 3
    /\ Len(task[1].log) = 3
    /\ RateLimitedUpTo(1, 3)
    /\ task[1].warnings = <<"retrying", "retrying", "max_retries">>
    /\ task[1].sleeps = 2
    /\ task[1].st = "done"
    /\ task[1].result = NotAvailable

\* progress_value after k additions of 1 / n
RECURSIVE IncrementedTimes(_, _)
IncrementedTimes(k, n) ==
    IF k = 0 THEN FloatZero
    ELSE FloatAdd[IncrementedTimes(k - 1, n), FloatInverse[n]]

\* the fetch of feature i got a 200 whose body is null, {}, [], 0, false or ""
FalsyOk(i) ==
    /\ Returned(i)
    /\ Last(task[i].log).status = 200
    /\ Last(task[i].log).body \in FalsyBodies

\* C18: a 200 whose decoded body is falsy is handled like NotAvailable: the
\* feature keeps exactly its original properties (the root key "" that
\* flatten gives for a scalar body is not added), and the handling of its
\* completion advances the progress like any other: after k handled
\* completions progress_value is k times 1/n and k values were reported
C18_FalsyBodyNotMerged ==
    \A i \in DOMAIN task :
        FalsyOk(i) =>
            /\ features[i].properties = original[i].properties
            /\ <<>> \notin DOMAIN features[i].properties
            /\ i \in handled =>
                   /\ progress_value = IncrementedTimes(Cardinality(handled), N)
                   /\ Len(progress_bar) >= 1 + Cardinality(handled)
                   /\ progress_bar[1 + Cardinality(handled)] =
                          ProgressPercent[progress_value]

\* two features answered 200 with 0 and with "": both completions handled,
\* both features as they were, 50 and 100 reported
C18_Witness ==
    /\ pc = "returned"
    /\ N = 2
    /\ FalsyOk(1) /\ task[1].result = JNum(0)
    /\ FalsyOk(2) /\ task[2].result = JStr(<<>>)
    /\ handled = {1, 2}
    /\ original[1].properties = PropsNamed
    /\ features = original
    /\ progress_bar = <<0, 50, 100, 100>>

\* C19: when enrich has propagated the error of a completion, the features
\* whose completions were handled before it have their results merged, in
\* the caller's collection, every other feature has its original
\* properties, and the reports are the initial 0 and one value below 100
\* per handled completion: the final 100 was not emitted
C19_PartialEnrichmentOnError ==
    (pc = "raised" /\ N >= 1) =>
        /\ \E i \in DOMAIN task : i \notin handled /\ Raised(i)
        /\ \A i \in handled :
               features[i].properties =
                   Update(original[i].properties,
                          IF Truthy(task[i].result)
                          THEN flatten_json(task[i].result) ELSE EmptyDict)
        /\ \A i \in DOMAIN task \ handled :
               features[i].properties = original[i].properties
        /\ Len(progress_bar) = 1 + Cardinality(handled)
        /\ \A j \in 1..Len(progress_bar) : progress_bar[j] < 100

\* the completion of feature 2 was handled and merged, then the error of
\* fetch 1 was propagated
C19_Witness ==
    /\ pc = "raised"
    /\ N = 2
    /\ Raised(1)
    /\ handled = {2}
    /\ task[2].result = BodyStats
    /\ original[2].properties = PropsNamed
    /\ features[2].properties[K_a_b] = JNum(1)
    /\ features[2].properties[K_name] = JStr(<<"x">>)
    /\ features[1] = original[1]
    /\ progress_bar = <<0, 50>>

====
